---- MODULE Spec2Model ----
(***************************************************************************)
(* The MindMate chatbot: memory pipeline, Node backend and React front end. *)
(*                                                                         *)
(*   main.py      /chat trigger, get_session_message_count                 *)
(*   workflow.py  fetch_last_n_messages, trigger_memory_extraction         *)
(*   memory_architecture.py  _get_llm_response,                            *)
(*                           extract_all_memories_parallel                 *)
(*   index.js     POST /chat, POST /transcribe-and-chat                    *)
(*   useChat.tsx  chat, chatWithAudio, the message queue                   *)
(*   UI.jsx       sendMessage, voice recording                             *)
(*                                                                         *)
(* The specifications of the module:                                       *)
(*   Spec        the chat_messages / memories tables, /chat turns and the  *)
(*               background extraction threads;                            *)
(*   SpecLLM     one invocation of _get_llm_response;                      *)
(*   SpecPar     one invocation of extract_all_memories_parallel;          *)
(*   SpecMem     the analyst's memory fetch;                               *)
(*   SpecBrowser one tab running the chat provider;                        *)
(*   SpecRunPar  one extraction run with its parallel tasks;               *)
(*   SpecFlow    a session that never stops, under fair scheduling;        *)
(*   SpecNode    the Node backend and its requests;                        *)
(*   SpecUI      the UI component over the chat provider.                  *)
(***************************************************************************)
EXTENDS Integers, Sequences, FiniteSets, TLC

\* ------------------------------------------------------------------------
\* Program constants
\* ------------------------------------------------------------------------

\* /chat: count % 20 == 0
MEMORY_EXTRACTION_INTERVAL == 20

\* trigger_memory_extraction: fetch_last_n_messages(session_id, n=15)
MESSAGES_TO_PROCESS == 15

\* _get_llm_response(self, prompt, max_retries: int = 3)
DEFAULT_MAX_RETRIES == 3

\* ------------------------------------------------------------------------
\* Bounds of the model
\* ------------------------------------------------------------------------

\* rows of chat_messages over all sessions
MaxMessages == 21

\* rows of chat_messages that another session has saved before
MaxOtherMessages == 1

\* background extraction threads ever started
MaxRuns == 2

\* items in one memory list returned by an extraction task
MaxMem == 1

\* rows in table memories while the analyst's fetch is examined
MaxStoredRows == 4

\* chat and chatWithAudio calls of one browser tab
MaxCalls == 3

\* values Date.now() takes while the tab is open
MaxClock == 3

\* unprocessed messages saved before the message the long session tracks
MaxBacklog == 16

\* requests the Node backend receives
MaxRequests == 2

\* messages in one Gemini reply ("a JSON array of up to 3 messages")
MaxReply == 2

\* messages in one reply of the Edge Function
MaxResp == 2

\* chat and chatWithAudio calls the UI component makes
MaxUICalls == 2

\* runs of sendMessage
MaxSends == 2

\* startRecording calls
MaxRecordings == 2

\* ------------------------------------------------------------------------
\* Values
\* ------------------------------------------------------------------------

Sessions == {"s1", "s2"}

\* request.session_id is Optional: the request may carry none
NoSession == "none"

\* for memory_type in ['procedural', 'semantic', 'episodic']
MemoryTypes == <<"procedural", "semantic", "episodic">>

MemoryTypeSet == {MemoryTypes[i] : i \in 1..3}

\* a list of n memory items, as an extraction task returns it
MemoryList(n) == [k \in 1..n |-> k]

VARIABLES
    supabase_configured,   \* SUPABASE_URL and SUPABASE_KEY are set
    memory_system,         \* workflow.memory_system is not None
    chat_messages,         \* table chat_messages, in created_at order; id = index
    memories,              \* table memories: the set of its rows
    runs,                  \* the started trigger_memory_extraction threads
    chatLog,               \* the last /chat turn: its inputs and what it read
    llm,                   \* one invocation of _get_llm_response
    par,                   \* one invocation of extract_all_memories_parallel
    analyst,               \* the last psychological_analyst memory fetch
    browser,               \* one browser tab running the useChat provider
    flow,                  \* a long session seen through one tracked message
    node,                  \* the Node backend: its keys, files and requests
    ui                     \* the UI component: input field and voice recording

vars == <<supabase_configured, memory_system, chat_messages, memories, runs,
          chatLog, llm, par, analyst, browser, flow, node, ui>>

sideVars == <<analyst, browser, flow, node, ui>>

pipelineVars == <<supabase_configured, memory_system, chat_messages, memories,
                  runs, chatLog>>

\* ------------------------------------------------------------------------
\* Tables
\* ------------------------------------------------------------------------

\* ids of the rows of msgs that belong to session_id
SessionMessageIds(msgs, session_id) ==
    {i \in DOMAIN msgs : msgs[i].session_id = session_id}

\* ALTER TABLE chat_messages ADD COLUMN processed_into_memory boolean
\* DEFAULT false: a newly saved row is unprocessed
NewMessage(session_id) ==
    [session_id |-> session_id, processed_into_memory |-> FALSE]

\* the first n elements of sequence s (.limit(n))
Limit(s, n) == SubSeq(s, 1, IF Len(s) < n THEN Len(s) ELSE n)

\* the ids of set S as a sequence in ascending created_at order
RECURSIVE Ascending(_)
Ascending(S) ==
    IF S = {} THEN <<>>
    ELSE LET m == CHOOSE x \in S : \A y \in S : x <= y
         IN  <<m>> \o Ascending(S \ {m})

\* the set of elements of sequence s
Range(s) == {s[i] : i \in DOMAIN s}

\* ------------------------------------------------------------------------
\* main.py
\* ------------------------------------------------------------------------

\* get_session_message_count(session_id); query_ok = FALSE is a query that
\* raises.  The result is the count the caller works with.
get_session_message_count(session_id, query_ok) ==
    IF ~supabase_configured \/ session_id = NoSession
    THEN 0
    ELSE IF query_ok
         THEN Cardinality(SessionMessageIds(chat_messages, session_id))
         ELSE 0

\* mutant of ShouldTrigger: the test count > 0 is dropped
ShouldTrigger_NoPositive(count) ==
    count % MEMORY_EXTRACTION_INTERVAL = 0

\* if count > 0 and count % 20 == 0
ShouldTrigger(count) ==
    count > 0 /\ count % MEMORY_EXTRACTION_INTERVAL = 0

\* the thread threading.Thread(target=workflow.trigger_memory_extraction,
\* args=(session_id, user_id)) before its first step
NewRun(session_id, count) ==
    [session_id     |-> session_id,
     trigger_count  |-> count,
     pc             |-> "fetch",
     messages       |-> <<>>,
     todo           |-> <<>>,
     memories_saved |-> 0,
     errors         |-> {},
     raised         |-> FALSE,
     marked         |-> FALSE]

\* mutant of TurnResponse: an exception of the trigger block escapes it
TurnResponse_TriggerErrorFails(has_result, trigger_raised) ==
    [failed |-> trigger_raised, result |-> has_result]

\* What the /chat turn answers.  The result is computed before the trigger
\* block; the block is wrapped in try/except Exception, which only logs, and
\* the thread is started and never joined: the answer is the result, whatever
\* the block did.
TurnResponse(has_result, trigger_raised) ==
    [failed |-> FALSE, result |-> has_result]

\* the /chat turn that has not happened yet
NoTurn ==
    [session_id |-> NoSession, has_result |-> FALSE, readable |-> FALSE,
     start_failed |-> FALSE, response |-> TurnResponse(FALSE, FALSE)]

\* The end of a /chat turn: "if result and request.session_id:" and the
\* block under it.  has_result: process_user_chat returned a truthy result;
\* query_ok: the count query did not raise; start_ok: get_workflow_instance()
\* and Thread(...).start() did not raise.  An input the turn never consults
\* has one value: no session_id, TRUE.
ChatTurn(session_id, has_result, query_ok, start_ok) ==
    LET enters   == has_result /\ session_id # NoSession
        readable == enters /\ supabase_configured /\ query_ok
        count    == IF enters
                    THEN get_session_message_count(session_id, query_ok)
                    ELSE 0
        wants    == enters /\ ShouldTrigger(count)
        starts   == wants /\ start_ok
    IN  /\ ~has_result => session_id = NoSession
        /\ ~(enters /\ supabase_configured) => query_ok
        /\ ~wants => start_ok
        /\ starts => Len(runs) < MaxRuns
        /\ runs' = IF starts
                   THEN Append(runs, NewRun(session_id, count))
                   ELSE runs
        /\ chatLog' = [session_id   |-> session_id,
                       has_result   |-> has_result,
                       readable     |-> readable,
                       start_failed |-> wants /\ ~start_ok,
                       response     |-> TurnResponse(has_result,
                                                     wants /\ ~start_ok)]
        /\ UNCHANGED <<supabase_configured, memory_system, chat_messages,
                       memories, llm, par, sideVars>>

\* The session that chats; the other session has only its earlier rows.
ActiveSession == "s1"

\* A row is inserted into chat_messages for the session.
SaveMessage(session_id) ==
    /\ Len(chat_messages) < MaxMessages
    /\ chat_messages' = Append(chat_messages, NewMessage(session_id))
    /\ UNCHANGED <<supabase_configured, memory_system, memories, runs,
                   chatLog, llm, par, sideVars>>

\* ------------------------------------------------------------------------
\* workflow.py
\* ------------------------------------------------------------------------

\* the rows the query of fetch_last_n_messages selects:
\* .eq('session_id', session_id).eq('processed_into_memory', False)
Unprocessed(msgs, session_id) ==
    {i \in SessionMessageIds(msgs, session_id) : ~msgs[i].processed_into_memory}

\* mutant of fetch_last_n_messages: the newest n unprocessed rows
fetch_last_n_messages_Newest(msgs, session_id, n, fetch_ok) ==
    IF ~supabase_configured \/ session_id = NoSession
    THEN <<>>
    ELSE IF fetch_ok
         THEN LET a == Ascending(Unprocessed(msgs, session_id))
              IN  SubSeq(a, IF Len(a) > n THEN Len(a) - n + 1 ELSE 1, Len(a))
         ELSE <<>>

\* fetch_last_n_messages(session_id, n); fetch_ok = FALSE is a query that
\* raises (logged, [] returned).  The ids of the returned messages, in the
\* order .order('created_at', desc=False).limit(n) returns them.
fetch_last_n_messages(msgs, session_id, n, fetch_ok) ==
    IF ~supabase_configured \/ session_id = NoSession
    THEN <<>>
    ELSE IF fetch_ok
         THEN Limit(Ascending(Unprocessed(msgs, session_id)), n)
         ELSE <<>>

\* mutant of MarkProcessed: the update has no .in_('id', message_ids) filter
MarkProcessed_AllRows(msgs, message_ids) ==
    [i \in DOMAIN msgs |-> [msgs[i] EXCEPT !.processed_into_memory = TRUE]]

\* .update({'processed_into_memory': True}).in_('id', message_ids)
MarkProcessed(msgs, message_ids) ==
    [i \in DOMAIN msgs |->
        IF i \in Range(message_ids)
        THEN [msgs[i] EXCEPT !.processed_into_memory = TRUE]
        ELSE msgs[i]]

\* the rows "for memory in result['memories'].get(memory_type, [])" visits
\* for one memory_type
RowsOfType(result, memory_type) ==
    [k \in 1..Len(result[memory_type]) |->
        [memory_type |-> memory_type, content |-> result[memory_type][k]]]

\* the inserts of the save loop, in the order of its two nested for loops
PendingInserts(result) ==
    RowsOfType(result, MemoryTypes[1]) \o RowsOfType(result, MemoryTypes[2])
        \o RowsOfType(result, MemoryTypes[3])

\* the results process_data_to_memories can return in result['memories']
ExtractionResults ==
    [MemoryTypeSet -> {MemoryList(n) : n \in 0..MaxMem}]

\* mutant of RunFetch: the test "if not self.memory_system" is dropped
RunFetch_NoMemorySystemTest(r, fetch_ok) ==
    LET run  == runs[r]
        msgs == fetch_last_n_messages(chat_messages, run.session_id,
                                      MESSAGES_TO_PROCESS, fetch_ok)
        errs == IF supabase_configured /\ ~fetch_ok
                THEN {"fetch_failed"} ELSE {}
    IN  /\ run.pc = "fetch"
        /\ runs' = [runs EXCEPT ![r] =
               IF msgs = <<>>
               THEN [run EXCEPT !.pc = "done", !.errors = errs]
               ELSE [run EXCEPT !.pc = "extract", !.messages = msgs]]
        /\ UNCHANGED <<supabase_configured, memory_system, chat_messages,
                       memories, chatLog, llm, par, sideVars>>

\* trigger_memory_extraction, first step: fetch the batch, then the two
\* early returns.
RunFetch(r, fetch_ok) ==
    LET run  == runs[r]
        msgs == fetch_last_n_messages(chat_messages, run.session_id,
                                      MESSAGES_TO_PROCESS, fetch_ok)
        errs == IF supabase_configured /\ ~fetch_ok
                THEN {"fetch_failed"} ELSE {}
    IN  /\ run.pc = "fetch"
        /\ runs' = [runs EXCEPT ![r] =
               IF msgs = <<>>
               THEN [run EXCEPT !.pc = "done", !.errors = errs]
               ELSE IF ~memory_system
                    THEN [run EXCEPT !.pc = "done", !.messages = msgs,
                                     !.errors = {"memory_system_not_initialized"}]
                    ELSE [run EXCEPT !.pc = "extract", !.messages = msgs]]
        /\ UNCHANGED <<supabase_configured, memory_system, chat_messages,
                       memories, chatLog, llm, par, sideVars>>

\* mutant of RunExtractFails: the exception is caught around the call alone
\* and the function goes on to its marking step
RunExtractFails_GoesOn(r) ==
    LET run == runs[r]
    IN  /\ run.pc = "extract"
        /\ runs' = [runs EXCEPT ![r] =
               [run EXCEPT !.pc = "save",
                           !.errors = @ \cup {"extraction_failed"}]]
        /\ UNCHANGED <<supabase_configured, memory_system, chat_messages,
                       memories, chatLog, llm, par, sideVars>>

\* result = self.memory_system.process_data_to_memories(chat_data) raises:
\* the outer "except Exception" logs and the function returns.
RunExtractFails(r) ==
    LET run == runs[r]
    IN  /\ run.pc = "extract"
        /\ runs' = [runs EXCEPT ![r] =
               [run EXCEPT !.pc = "done",
                           !.errors = @ \cup {"extraction_failed"}]]
        /\ UNCHANGED <<supabase_configured, memory_system, chat_messages,
                       memories, chatLog, llm, par, sideVars>>

\* mutant of RunExtract: the batch is marked processed before the save loop
RunExtract_MarksFirst(r, result) ==
    LET run == runs[r]
    IN  /\ run.pc = "extract"
        /\ chat_messages' = MarkProcessed(chat_messages, run.messages)
        /\ runs' = [runs EXCEPT ![r] =
               [run EXCEPT !.pc = "save", !.todo = PendingInserts(result)]]
        /\ UNCHANGED <<supabase_configured, memory_system,
                       memories, chatLog, llm, par, sideVars>>

\* result = self.memory_system.process_data_to_memories(chat_data) returns.
RunExtract(r, result) ==
    LET run == runs[r]
    IN  /\ run.pc = "extract"
        /\ runs' = [runs EXCEPT ![r] =
               [run EXCEPT !.pc = "save", !.todo = PendingInserts(result)]]
        /\ UNCHANGED <<supabase_configured, memory_system, chat_messages,
                       memories, chatLog, llm, par, sideVars>>

\* One iteration of the save loop: the insert into memories and its
\* try/except.  insert_ok = FALSE is an insert that raises.
RunInsert(r, insert_ok) ==
    LET run == runs[r]
        row == Head(run.todo)
    IN  /\ run.pc = "save"
        /\ run.todo # <<>>
        /\ memories' =
               IF insert_ok
               THEN memories \cup {[session_id  |-> run.session_id,
                                     memory_type |-> row.memory_type,
                                     content     |-> row.content,
                                     run         |-> r]}
               ELSE memories
        /\ runs' = [runs EXCEPT ![r] =
               IF insert_ok
               THEN [run EXCEPT !.todo = Tail(@),
                                !.memories_saved = @ + 1]
               ELSE [run EXCEPT !.todo = Tail(@),
                                !.errors = @ \cup {"insert_failed"}]]
        /\ UNCHANGED <<supabase_configured, memory_system, chat_messages,
                       chatLog, llm, par, sideVars>>

\* "Mark messages as processed" and the end of the function.
\* update_ok = FALSE is an update that raises (logged).
RunMark(r, update_ok) ==
    LET run == runs[r]
    IN  /\ run.pc = "save"
        /\ run.todo = <<>>
        /\ chat_messages' =
               IF update_ok
               THEN MarkProcessed(chat_messages, run.messages)
               ELSE chat_messages
        /\ runs' = [runs EXCEPT ![r] =
               IF update_ok
               THEN [run EXCEPT !.pc = "done", !.marked = TRUE]
               ELSE [run EXCEPT !.pc = "done",
                                !.errors = @ \cup {"mark_failed"}]]
        /\ UNCHANGED <<supabase_configured, memory_system, memories,
                       chatLog, llm, par, sideVars>>

\* ------------------------------------------------------------------------
\* workflow.py: fetch_session_memories and psychological_analyst
\* ------------------------------------------------------------------------

\* {'procedural': [], 'semantic': [], 'episodic': []}
NoMemories == [t \in MemoryTypeSet |-> {}]

\* mutant of fetch_session_memories: the filter .eq('session_id', ...) is
\* dropped
fetch_session_memories_AnySession(session_id, query_ok) ==
    IF ~supabase_configured \/ session_id = NoSession
    THEN [raised |-> FALSE, memories |-> NoMemories]
    ELSE IF query_ok
         THEN [raised   |-> FALSE,
               memories |-> [t \in MemoryTypeSet |->
                               {row \in memories : row.memory_type = t}]]
         ELSE [raised |-> FALSE, memories |-> NoMemories]

\* mutant of fetch_session_memories: the except clause is dropped
fetch_session_memories_Unguarded(session_id, query_ok) ==
    IF ~supabase_configured \/ session_id = NoSession
    THEN [raised |-> FALSE, memories |-> NoMemories]
    ELSE IF query_ok
         THEN [raised   |-> FALSE,
               memories |-> [t \in MemoryTypeSet |->
                               {row \in memories :
                                   /\ row.session_id = session_id
                                   /\ row.memory_type = t}]]
         ELSE [raised |-> TRUE, memories |-> NoMemories]

\* fetch_session_memories(session_id); query_ok = FALSE is a query that
\* raises.  select('*').eq('session_id', session_id), the rows grouped by
\* memory_type; every row of the table has one of the three types.
fetch_session_memories(session_id, query_ok) ==
    IF ~supabase_configured \/ session_id = NoSession
    THEN [raised |-> FALSE, memories |-> NoMemories]
    ELSE IF query_ok
         THEN [raised   |-> FALSE,
               memories |-> [t \in MemoryTypeSet |->
                               {row \in memories :
                                   /\ row.session_id = session_id
                                   /\ row.memory_type = t}]]
         ELSE [raised |-> FALSE, memories |-> NoMemories]

\* sum(len(v) for v in session_memories.values())
MemoryCount(session_memories) ==
    Cardinality(UNION {session_memories[t] : t \in MemoryTypeSet})

\* memory_context of the combined prompt: empty (present = FALSE) when
\* there is no memory, else the total and the number of memories per type
MemoryContext(session_memories) ==
    IF MemoryCount(session_memories) > 0
    THEN [present |-> TRUE,
          total   |-> MemoryCount(session_memories),
          lines   |-> [t \in MemoryTypeSet |->
                          Cardinality(session_memories[t])]]
    ELSE [present |-> FALSE,
          total   |-> 0,
          lines   |-> [t \in MemoryTypeSet |-> 0]]

\* no psychological_analyst call yet
AnalystIdle ==
    [pc               |-> "idle",
     session_id       |-> NoSession,
     readable         |-> FALSE,
     session_memories |-> NoMemories,
     memory_context   |-> MemoryContext(NoMemories)]

\* psychological_analyst up to its combined_prompt: session_memories starts
\* empty and is fetched only "if state.get('session_id')".  An exception of
\* the fetch would end the call (pc "raised").  query_ok is consulted only
\* by a query that is made.
psychological_analyst(session_id, query_ok) ==
    LET queried == session_id # NoSession /\ supabase_configured
        fetched == IF session_id # NoSession
                   THEN fetch_session_memories(session_id, query_ok)
                   ELSE [raised |-> FALSE, memories |-> NoMemories]
    IN  /\ ~queried => query_ok
        /\ analyst' =
               IF fetched.raised
               THEN [AnalystIdle EXCEPT !.pc = "raised",
                                        !.session_id = session_id]
               ELSE [pc               |-> "prompted",
                     session_id       |-> session_id,
                     readable         |-> queried /\ query_ok,
                     session_memories |-> fetched.memories,
                     memory_context   |-> MemoryContext(fetched.memories)]
        /\ UNCHANGED <<pipelineVars, llm, par, browser, flow, node, ui>>

\* A row of table memories, as trigger_memory_extraction inserts it for a
\* memory of its result.
StoreMemory(session_id, memory_type, content, run) ==
    /\ Cardinality(memories) < MaxStoredRows
    /\ memories' = memories \cup {[session_id  |-> session_id,
                                    memory_type |-> memory_type,
                                    content     |-> content,
                                    run         |-> run]}
    /\ UNCHANGED <<supabase_configured, memory_system, chat_messages, runs,
                   chatLog, llm, par, sideVars>>

\* ------------------------------------------------------------------------
\* memory_architecture.py: _get_llm_response
\* ------------------------------------------------------------------------

\* What self.model.generate_content(prompt) can give:
\*   raises    the call, or reading response.text, raises
\*   none      a falsy response
\*   opaque    a response with neither .text nor .content
\*   text      a response with .text
\*   content   a response with .content and no .text
\* and, for the last two, the form of the text and the number of items of
\* the JSON list in it:
\*   json_list            [ ... ]
\*   fenced_json_list     ```json [ ... ] ```
\*   object_holding_list  { "memories": [ ... ] }
\*   bracketed_prose      prose with a [ and a later ], no JSON
\*   json_object          { ... } without any [ ]
\*   fenced_json_object   ```json { ... } ```
\*   prose                text without brackets, no JSON
ListForms == {"json_list", "fenced_json_list", "object_holding_list"}

OtherForms == {"bracketed_prose", "json_object", "fenced_json_object", "prose"}

LLMResponses ==
    [kind : {"raises", "none", "opaque"}, form : {"prose"}, items : {0}]
    \cup [kind : {"text", "content"}, form : ListForms, items : 0..MaxMem]
    \cup [kind : {"text", "content"}, form : OtherForms, items : {0}]

\* json_match = re.search(r'\[.*\]', response_text, re.DOTALL)
HasBracketMatch(form) ==
    form \in ListForms \cup {"bracketed_prose"}

\* json_text, then json.loads(json_text) and isinstance(parsed, list).
\* With a bracket match json_text is the matched span; without one the
\* ```json fences are stripped from the whole text.
ParseResponseText(form, items) ==
    IF HasBracketMatch(form)
    THEN IF form = "bracketed_prose"
         THEN [status |-> "decode_error", value |-> <<>>]
         ELSE [status |-> "list", value |-> MemoryList(items)]
    ELSE IF form \in {"json_object", "fenced_json_object"}
         THEN [status |-> "not_list", value |-> <<>>]
         ELSE [status |-> "decode_error", value |-> <<>>]

\* where one attempt goes inside the try block
Classify(resp) ==
    IF resp.kind = "raises" THEN [status |-> "error", value |-> <<>>]
    ELSE IF resp.kind = "none" THEN [status |-> "none", value |-> <<>>]
    ELSE IF resp.kind = "opaque" THEN [status |-> "opaque", value |-> <<>>]
    ELSE ParseResponseText(resp.form, resp.items)

\* 2 ** k
RECURSIVE Pow2(_)
Pow2(k) == IF k = 0 THEN 1 ELSE 2 * Pow2(k - 1)

\* mutant of Backoff: a fixed delay of 2 seconds
Backoff_Fixed(attempt) == 2

\* time.sleep(2 ** attempt)
Backoff(attempt) == Pow2(attempt)

\* mutant of AttemptOutcome: "if parsed_response:" in place of the
\* isinstance test, so that an empty list counts as a failed attempt
AttemptOutcome_EmptyListFails(resp, attempt, max_retries) ==
    LET c    == Classify(resp)
        last == attempt = max_retries - 1
        retry == [do |-> "retry", value |-> <<>>, sleep |-> Backoff(attempt)]
        raise == [do |-> "raise", value |-> <<>>, sleep |-> 0]
    IN  IF c.status = "list" /\ c.value # <<>>
        THEN [do |-> "return", value |-> c.value, sleep |-> 0]
        ELSE IF c.status \in {"none", "opaque"}
        THEN IF attempt < max_retries - 1 THEN retry ELSE raise
        ELSE IF c.status \in {"not_list", "list"}
        THEN IF attempt < max_retries - 1 THEN retry
             ELSE [do |-> "return", value |-> <<>>, sleep |-> 0]
        ELSE IF last THEN raise ELSE retry

\* One iteration of "for attempt in range(max_retries)": what the body does
\* with the response of this attempt.  "retry" sleeps and continues.
\* A ValueError raised inside the try block is caught by "except Exception",
\* which re-raises on the last attempt.
AttemptOutcome(resp, attempt, max_retries) ==
    LET c    == Classify(resp)
        last == attempt = max_retries - 1
        retry == [do |-> "retry", value |-> <<>>, sleep |-> Backoff(attempt)]
        raise == [do |-> "raise", value |-> <<>>, sleep |-> 0]
    IN  IF c.status = "list"
        THEN [do |-> "return", value |-> c.value, sleep |-> 0]
        ELSE IF c.status \in {"none", "opaque"}
        THEN IF attempt < max_retries - 1 THEN retry ELSE raise
        ELSE IF c.status = "not_list"
        THEN IF attempt < max_retries - 1 THEN retry
             ELSE [do |-> "return", value |-> <<>>, sleep |-> 0]
        ELSE IF last THEN raise ELSE retry

LLMIdle == [pc |-> "idle", max_retries |-> 0, attempt |-> 0,
            responses |-> <<>>, sleeps |-> <<>>, value |-> <<>>]

\* _get_llm_response(prompt, max_retries) is called.
LLMCall(max_retries) ==
    /\ llm.pc = "idle"
    /\ llm' = [LLMIdle EXCEPT !.pc = "running", !.max_retries = max_retries]
    /\ UNCHANGED <<pipelineVars, par, sideVars>>

\* One iteration of the retry loop, with the response of its LLM call.
LLMAttempt(resp) ==
    LET out == AttemptOutcome(resp, llm.attempt, llm.max_retries)
    IN  /\ llm.pc = "running"
        /\ llm.attempt < llm.max_retries
        /\ llm' = [llm EXCEPT
               !.responses = Append(@, resp),
               !.pc        = IF out.do = "retry" THEN "running"
                             ELSE IF out.do = "return" THEN "returned"
                             ELSE "raised",
               !.attempt   = IF out.do = "retry" THEN @ + 1 ELSE @,
               !.sleeps    = IF out.do = "retry" THEN Append(@, out.sleep) ELSE @,
               !.value     = out.value]
        /\ UNCHANGED <<pipelineVars, par, sideVars>>

\* The loop ends without return or raise: the final raise ValueError.
LLMExhausted ==
    /\ llm.pc = "running"
    /\ llm.attempt >= llm.max_retries
    /\ llm' = [llm EXCEPT !.pc = "raised"]
    /\ UNCHANGED <<pipelineVars, par, sideVars>>

\* ------------------------------------------------------------------------
\* memory_architecture.py: extract_all_memories_parallel
\* ------------------------------------------------------------------------

EmptyMemories == [t \in MemoryTypeSet |-> <<>>]

ParIdle ==
    [pc        |-> "idle",
     task      |-> [t \in MemoryTypeSet |-> "unsubmitted"],
     result    |-> EmptyMemories,
     completed |-> <<>>,
     collected |-> 0,
     local     |-> EmptyMemories,
     output    |-> [memory_summary |-> [total_procedural |-> 0,
                                        total_semantic   |-> 0,
                                        total_episodic   |-> 0,
                                        total_memories   |-> 0],
                    memories |-> EmptyMemories]]

\* mutant of AssignResult: the semantic branch assigns episodic_memories
AssignResult_Swapped(local, memory_type, result) ==
    IF memory_type = "procedural" THEN [local EXCEPT !["procedural"] = result]
    ELSE IF memory_type = "semantic" THEN [local EXCEPT !["episodic"] = result]
    ELSE IF memory_type = "episodic" THEN [local EXCEPT !["episodic"] = result]
    ELSE local

\* the if/elif chain under "result = future.result()"
AssignResult(local, memory_type, result) ==
    IF memory_type = "procedural" THEN [local EXCEPT !["procedural"] = result]
    ELSE IF memory_type = "semantic" THEN [local EXCEPT !["semantic"] = result]
    ELSE IF memory_type = "episodic" THEN [local EXCEPT !["episodic"] = result]
    ELSE local

\* output = {...}: memory_summary and memories
BuildOutput(local) ==
    [memory_summary |->
        [total_procedural |-> Len(local["procedural"]),
         total_semantic   |-> Len(local["semantic"]),
         total_episodic   |-> Len(local["episodic"]),
         total_memories   |-> Len(local["procedural"]) + Len(local["semantic"])
                                  + Len(local["episodic"])],
     memories |-> local]

\* with ThreadPoolExecutor(max_workers=3): the three executor.submit calls.
ParSubmit ==
    /\ par.pc = "idle"
    /\ par' = [par EXCEPT !.pc = "running",
                          !.task = [t \in MemoryTypeSet |-> "running"]]
    /\ UNCHANGED <<pipelineVars, llm, sideVars>>

\* The task of memory_type returns its list.
ParTaskReturns(memory_type, list) ==
    /\ par.task[memory_type] = "running"
    /\ par' = [par EXCEPT !.task[memory_type] = "done",
                          !.result[memory_type] = list,
                          !.completed = Append(@, memory_type)]
    /\ UNCHANGED <<pipelineVars, llm, sideVars>>

\* The task of memory_type raises.
ParTaskRaises(memory_type) ==
    /\ par.task[memory_type] = "running"
    /\ par' = [par EXCEPT !.task[memory_type] = "failed",
                          !.completed = Append(@, memory_type)]
    /\ UNCHANGED <<pipelineVars, llm, sideVars>>

\* One iteration of "for future in as_completed(future_to_type)": the next
\* completed future, its result or its exception (logged and re-raised).
ParCollect ==
    /\ par.pc = "running"
    /\ par.collected < Len(par.completed)
    /\ LET memory_type == par.completed[par.collected + 1]
       IN  par' = IF par.task[memory_type] = "done"
                  THEN [par EXCEPT
                           !.collected = @ + 1,
                           !.local = AssignResult(@, memory_type,
                                                  par.result[memory_type])]
                  ELSE [par EXCEPT !.collected = @ + 1, !.pc = "unwinding"]
    /\ UNCHANGED <<pipelineVars, llm, sideVars>>

\* as_completed(..., timeout=120) raises TimeoutError while a future is
\* still running.
ParTimeout ==
    /\ par.pc = "running"
    /\ par.collected = Len(par.completed)
    /\ \E t \in MemoryTypeSet : par.task[t] = "running"
    /\ par' = [par EXCEPT !.pc = "unwinding"]
    /\ UNCHANGED <<pipelineVars, llm, sideVars>>

\* The exception leaves the with block: the executor waits for its tasks,
\* then the exception propagates to the caller.
ParUnwind ==
    /\ par.pc = "unwinding"
    /\ \A t \in MemoryTypeSet : par.task[t] # "running"
    /\ par' = [par EXCEPT !.pc = "raised"]
    /\ UNCHANGED <<pipelineVars, llm, sideVars>>

\* The loop has seen all three futures: output is built and returned.
ParReturn ==
    /\ par.pc = "running"
    /\ par.collected = 3
    /\ par' = [par EXCEPT !.pc = "returned", !.output = BuildOutput(par.local)]
    /\ UNCHANGED <<pipelineVars, llm, sideVars>>

\* ------------------------------------------------------------------------
\* src/hooks/useChat.tsx: the session id of chat and chatWithAudio
\* ------------------------------------------------------------------------

\* sessionStorage.getItem('chat_session_id') of a tab that has stored none
NoId == 0

\* message when the queue is empty (null)
NoMessage == [call |-> 0, k |-> 0, text |-> "", audio |-> ""]

\* audio: null
NoAudio == "null"

\* One tab: storage is the sessionStorage entry chat_session_id, the id
\* session_<t> standing as t; clock is Date.now(); calls are the chat and
\* chatWithAudio calls made; sent are the session_id fields of the bodies
\* handed to supabase.functions.invoke; loading, messages and message are
\* the provider's state, and effect_due says that messages has changed
\* and the effect that derives message from it has not run yet.
BrowserIdle ==
    [storage |-> NoId, clock |-> 1, calls |-> <<>>, sent |-> <<>>,
     loading |-> FALSE, messages |-> <<>>, message |-> NoMessage,
     effect_due |-> FALSE]

\* mutant of SessionIdFor: the stored id is not consulted
SessionIdFor_AlwaysNew(stored, now) == now

\* sessionStorage.getItem('chat_session_id') || `session_${Date.now()}`
SessionIdFor(stored, now) == IF stored # NoId THEN stored ELSE now

\* `Sorry, I encountered an error: ${error.message}. Please try again.`
\* of chat and its counterpart of chatWithAudio
ErrorText(kind) ==
    IF kind = "chat"
    THEN "Sorry, I encountered an error: "
    ELSE "Sorry, I encountered an error processing your audio: "

\* the message the catch block of call c appends
ErrorMessage(b, c) ==
    [call |-> c, k |-> 1, text |-> ErrorText(b.calls[c].kind),
     audio |-> NoAudio]

\* data.messages || [{ text: data.response || 'No response', audio: null }]
\* resp is the length of data.messages, -1 when data has no messages
ResponseMessages(c, resp) ==
    IF resp < 0
    THEN <<[call |-> c, k |-> 1, text |-> "response", audio |-> NoAudio]>>
    ELSE [k \in 1..resp |->
             [call |-> c, k |-> k, text |-> "message", audio |-> "audio"]]

\* mutant of SetMessages: the new messages are put in front
SetMessages_AtHead(b, resp) ==
    [b EXCEPT !.messages = resp \o @, !.effect_due = TRUE]

\* setMessages((messages) => [...messages, ...resp])
SetMessages(b, resp) ==
    [b EXCEPT !.messages = @ \o resp, !.effect_due = TRUE]

\* messages.slice(1)
Slice1(m) == IF m = <<>> THEN <<>> ELSE Tail(m)

\* mutant of CallFailed: the catch block appends nothing
CallFailed_Silent(b, c) ==
    [b EXCEPT !.calls[c].pc = "done", !.calls[c].failed = TRUE,
              !.loading = FALSE]

\* The catch block of call c and the setLoading(false) after it
CallFailed(b, c) ==
    [SetMessages(b, <<ErrorMessage(b, c)>>) EXCEPT
        !.calls[c].pc = "done", !.calls[c].failed = TRUE,
        !.loading = FALSE]

\* The end of the try block of call c and the setLoading(false) after it
CallSucceeded(b, c, resp) ==
    [SetMessages(b, ResponseMessages(c, resp)) EXCEPT
        !.calls[c].pc = "done", !.loading = FALSE]

\* setLoading(true) and the call's run to its first await,
\* supabase.auth.getSession()
CallStarted(b, kind) ==
    [b EXCEPT !.loading = TRUE,
              !.calls = Append(@, [kind |-> kind, pc |-> "getSession",
                                   session_id |-> NoId, failed |-> FALSE])]

\* Date.now() moves on
Tick ==
    /\ browser.clock < MaxClock
    /\ browser' = [browser EXCEPT !.clock = @ + 1]
    /\ UNCHANGED <<pipelineVars, llm, par, analyst, flow, node, ui>>

\* chat(message) or chatWithAudio(audioBlob) is called
StartCall(kind) ==
    /\ Len(browser.calls) < MaxCalls
    /\ browser' = CallStarted(browser, kind)
    /\ UNCHANGED <<pipelineVars, llm, par, analyst, flow, node, ui>>

\* The code between the authentication awaits and the next await, run in
\* one turn of the event loop: the id is read or made, stored, and for
\* chat the body is handed to functions.invoke; chatWithAudio first awaits
\* the FileReader.  storage_ok = FALSE is a sessionStorage access that
\* throws: the catch block ends the call.
SessionIdSection(c, storage_ok) ==
    LET call      == browser.calls[c]
        sessionId == SessionIdFor(browser.storage, browser.clock)
    IN  IF ~storage_ok
        THEN CallFailed(browser, c)
        ELSE IF call.kind = "chat"
             THEN [browser EXCEPT
                      !.storage = sessionId,
                      !.calls[c].session_id = sessionId,
                      !.calls[c].pc = "invoke",
                      !.sent = Append(@, [call |-> c,
                                          session_id |-> sessionId])]
             ELSE [browser EXCEPT
                      !.storage = sessionId,
                      !.calls[c].session_id = sessionId,
                      !.calls[c].pc = "readAudio"]

\* await supabase.auth.getSession() resolves, with a session or without
GetSessionResolves(c, has_session, storage_ok) ==
    /\ c \in DOMAIN browser.calls
    /\ browser.calls[c].pc = "getSession"
    /\ ~has_session => storage_ok
    /\ browser' = IF has_session
                  THEN SessionIdSection(c, storage_ok)
                  ELSE [browser EXCEPT !.calls[c].pc = "signIn"]
    /\ UNCHANGED <<pipelineVars, llm, par, analyst, flow, node, ui>>

\* await supabase.auth.signInAnonymously() resolves; "if (error) throw
\* error" ends the call in its catch block
SignInResolves(c, signin_ok, storage_ok) ==
    /\ c \in DOMAIN browser.calls
    /\ browser.calls[c].pc = "signIn"
    /\ ~signin_ok => storage_ok
    /\ browser' = IF signin_ok
                  THEN SessionIdSection(c, storage_ok)
                  ELSE CallFailed(browser, c)
    /\ UNCHANGED <<pipelineVars, llm, par, analyst, flow, node, ui>>

\* chatWithAudio: the FileReader promise resolves and the body is handed
\* to functions.invoke with the sessionId read before the await
AudioRead(c) ==
    /\ c \in DOMAIN browser.calls
    /\ browser.calls[c].pc = "readAudio"
    /\ browser' = [browser EXCEPT
           !.calls[c].pc = "invoke",
           !.sent = Append(@, [call |-> c,
                               session_id |-> browser.calls[c].session_id])]
    /\ UNCHANGED <<pipelineVars, llm, par, analyst, flow, node, ui>>

\* await supabase.functions.invoke(...) resolves: with an error
\* (invoke_ok = FALSE), or with data whose messages field is absent
\* (resp = -1) or a list of resp messages
InvokeResolves(c, invoke_ok, resp) ==
    /\ c \in DOMAIN browser.calls
    /\ browser.calls[c].pc = "invoke"
    /\ ~invoke_ok => resp = -1
    /\ browser' = IF invoke_ok
                  THEN CallSucceeded(browser, c, resp)
                  ELSE CallFailed(browser, c)
    /\ UNCHANGED <<pipelineVars, llm, par, analyst, flow, node, ui>>

\* onMessagePlayed: setMessages((messages) => messages.slice(1))
OnMessagePlayed ==
    /\ browser' = [browser EXCEPT !.messages = Slice1(@),
                                  !.effect_due = TRUE]
    /\ UNCHANGED <<pipelineVars, llm, par, analyst, flow, node, ui>>

\* useEffect(..., [messages]): message becomes messages[0], or null
MessagesEffect ==
    /\ browser.effect_due
    /\ browser' = [browser EXCEPT
           !.message = IF Len(browser.messages) > 0
                       THEN browser.messages[1] ELSE NoMessage,
           !.effect_due = FALSE]
    /\ UNCHANGED <<pipelineVars, llm, par, analyst, flow, node, ui>>

\* ------------------------------------------------------------------------
\* A session that never stops: main.py's trigger and workflow.py's batch,
\* seen through one tracked message
\* ------------------------------------------------------------------------

\* The session's row count grows without bound; the trigger reads it only
\* through "count > 0" and "count % 20", kept as nonempty and count20.
\* tracked: the tracked message is "unsaved", "waiting" (saved, unprocessed)
\* or "processed".  older: while the tracked message is unsaved, the number
\* of unprocessed rows; while it waits, its place among the unprocessed rows
\* in created_at order (1 = the oldest).  pending: a run has been started
\* and has not ended.  read: count % 20 as the last turn read it, -1 before
\* the first turn or when the turn could not read it.
FlowIdle ==
    [count20 |-> 0, nonempty |-> FALSE, tracked |-> "unsaved", older |-> 0,
     pending |-> FALSE, read |-> -1]

\* a count with the same "count > 0" and "count % 20" as the session's
FlowCount ==
    IF ~flow.nonempty THEN 0
    ELSE IF flow.count20 = 0 THEN MEMORY_EXTRACTION_INTERVAL
         ELSE flow.count20

\* A row of the session is saved; is_tracked: it is the tracked message.
FlowSave(is_tracked) ==
    /\ is_tracked => flow.tracked = "unsaved"
    /\ (flow.tracked = "unsaved" /\ ~is_tracked) => flow.older < MaxBacklog
    /\ flow' = [flow EXCEPT
           !.count20  = (@ + 1) % MEMORY_EXTRACTION_INTERVAL,
           !.nonempty = TRUE,
           !.tracked  = IF is_tracked THEN "waiting" ELSE @,
           !.older    = IF flow.tracked = "unsaved" THEN @ + 1 ELSE @]
    /\ UNCHANGED <<pipelineVars, llm, par, analyst, browser, node, ui>>

\* The end of a /chat turn with a result and a session_id: it reads the
\* count (query_ok = FALSE: the query raises and the count is 0) and starts
\* a run if ShouldTrigger.  The session's runs do not overlap: no turn
\* reads a count that starts a run while a run is pending.
FlowTurn(query_ok) ==
    LET count == IF query_ok THEN FlowCount ELSE 0
    IN  /\ ShouldTrigger(count) => ~flow.pending
        /\ flow' = [flow EXCEPT
               !.pending = @ \/ ShouldTrigger(count),
               !.read    = IF query_ok /\ flow.nonempty
                           THEN flow.count20 ELSE -1]
        /\ UNCHANGED <<pipelineVars, llm, par, analyst, browser, node, ui>>

\* How many of the `older` oldest unprocessed rows a successful run marks:
\* fetch_last_n_messages orders by created_at ascending and limits to 15.
FlowBatch(older) ==
    IF older < MESSAGES_TO_PROCESS THEN older ELSE MESSAGES_TO_PROCESS

\* A run that succeeds in every step: it fetches its batch, stores the
\* memories and marks the batch processed.
FlowRun ==
    /\ flow.pending
    /\ flow' = [flow EXCEPT
           !.pending = FALSE,
           !.older   = @ - FlowBatch(@),
           !.tracked = IF @ = "waiting" /\ flow.older = FlowBatch(flow.older)
                       THEN "processed" ELSE @]
    /\ UNCHANGED <<pipelineVars, llm, par, analyst, browser, node, ui>>

\* ------------------------------------------------------------------------
\* r3f-virtual-girlfriend-backend/index.js
\* ------------------------------------------------------------------------

\* The files of audios/ the endpoints name, for message index k (the code's
\* i + 1): message_i.wav, message_ifinal.wav, message_i.json,
\* message_i.mp3 and message_i.mp3final.wav.
FileKinds == {"wav", "final.wav", "json", "mp3", "mp3final.wav"}

\* a file that does not exist; an existing file holds the number of the
\* request its content was synthesized from
NoFile == 0

\* the process before dotenv.config() and the const declarations have run
NodeOff ==
    [pc               |-> "off",
     elevenLabsApiKey |-> FALSE,
     geminiApiKey     |-> FALSE,
     files            |-> [k \in 1..MaxReply |-> [f \in FileKinds |-> NoFile]],
     reqs             |-> <<>>]

\* The module's top level: the keys are read from the environment and
\* app.listen starts the server.
NodeBoot(eleven, gemini) ==
    /\ node.pc = "off"
    /\ node' = [node EXCEPT !.pc = "listening",
                            !.elevenLabsApiKey = eleven,
                            !.geminiApiKey = gemini]
    /\ UNCHANGED <<pipelineVars, llm, par, analyst, browser, flow, ui>>

\* a request as its handler starts: status 0 is "not answered"; calls are
\* the external calls the handler has made; audio and lipsync are the
\* fields of its messages
NewRequest(kind, has_input) ==
    [kind      |-> kind,
     has_input |-> has_input,
     pc        |-> "start",
     n         |-> 0,
     i         |-> 0,
     audio     |-> [k \in 1..MaxReply |-> NoFile],
     lipsync   |-> [k \in 1..MaxReply |-> NoFile],
     status    |-> 0,
     error     |-> "",
     answers   |-> 0,
     calls     |-> {},
     failed_at |-> 0,
     gemini_failed |-> FALSE]

\* res.status(status).json({ error }) or res.send({ messages }), and the
\* end of the handler
Answer(req, status, error) ==
    [req EXCEPT !.status = status, !.error = error, !.answers = @ + 1,
                !.pc = "done"]

\* the handler awaits the external call `step`
Await(req, step) ==
    [req EXCEPT !.pc = step, !.calls = @ \cup {step}]

\* mutant of ChatPreconditions: the keys are tested before the message
ChatPreconditions_KeysFirst(has_message, eleven, gemini) ==
    IF ~eleven \/ ~gemini
    THEN [status |-> 500, error |-> "API keys missing"]
    ELSE IF ~has_message
         THEN [status |-> 400, error |-> "No message provided"]
         ELSE [status |-> 0, error |-> ""]

\* POST /chat, the two tests before the try block; status 0: both passed
ChatPreconditions(has_message, eleven, gemini) ==
    IF ~has_message
    THEN [status |-> 400, error |-> "No message provided"]
    ELSE IF ~eleven \/ ~gemini
         THEN [status |-> 500, error |-> "API keys missing"]
         ELSE [status |-> 0, error |-> ""]

\* POST /chat arrives and its handler runs to its first await,
\* model.generateContent, or to a return. has_message: req.body.message
\* is truthy.
PostChat(has_message) ==
    LET pre == ChatPreconditions(has_message, node.elevenLabsApiKey,
                                 node.geminiApiKey)
        req == NewRequest("chat", has_message)
    IN  /\ node.pc = "listening"
        /\ Len(node.reqs) < MaxRequests
        /\ node' = [node EXCEPT !.reqs = Append(@,
               IF pre.status # 0
               THEN Answer(req, pre.status, pre.error)
               ELSE Await(req, "gemini"))]
        /\ UNCHANGED <<pipelineVars, llm, par, analyst, browser, flow, ui>>

\* POST /transcribe-and-chat arrives and its handler runs to its first
\* await, or to a return. has_file: multer set req.file.
PostTranscribe(has_file) ==
    LET req == NewRequest("transcribe", has_file)
    IN  /\ node.pc = "listening"
        /\ Len(node.reqs) < MaxRequests
        /\ node' = [node EXCEPT !.reqs = Append(@,
               IF ~has_file
               THEN Answer(req, 400, "No audio file uploaded")
               ELSE Await(req, "stt"))]
        /\ UNCHANGED <<pipelineVars, llm, par, analyst, browser, flow, ui>>

\* POST /transcribe-and-chat: fs.readFile of the upload, the fetch of the
\* speech-to-text API and sttResponse.json() settle. outcome "throws": one
\* of them rejects (outer catch); "not_ok": sttResponse.ok is false; "ok":
\* the handler goes on to Gemini, where genAI is null without a Gemini key
\* and genAI.getGenerativeModel throws into the inner catch.
SttResolves(r, outcome) ==
    LET req == node.reqs[r]
    IN  /\ r \in DOMAIN node.reqs
        /\ req.pc = "stt"
        /\ node' = [node EXCEPT !.reqs[r] =
               IF outcome = "throws" THEN Answer(req, 500, "err.message")
               ELSE IF outcome = "not_ok"
                    THEN Answer(req, 500, "Failed to transcribe audio")
                    ELSE IF ~node.geminiApiKey
                         THEN Answer([req EXCEPT !.gemini_failed = TRUE],
                                     500, "Gemini API error")
                         ELSE Await(req, "gemini")]
        /\ UNCHANGED <<pipelineVars, llm, par, analyst, browser, flow, ui>>

\* the first external call of the loop body for a message
FirstStep(kind) == "tts"

\* mutant of GeminiResolved: the catch block logs and the handler goes on
GeminiResolved_GoesOn(req, reply) ==
    IF reply < 0
    THEN Await([req EXCEPT !.gemini_failed = TRUE, !.n = 1, !.i = 1],
               FirstStep(req.kind))
    ELSE IF reply = 0
         THEN Answer([req EXCEPT !.n = 0], 200, "")
         ELSE Await([req EXCEPT !.n = reply, !.i = 1], FirstStep(req.kind))

\* The request after model.generateContent settled and its text was
\* parsed. reply < 0: the call rejected or JSON.parse threw (catch block:
\* status 500); otherwise reply is the number of messages: with none the
\* for loop is skipped and the list is sent, else the loop awaits the
\* speech of its first message.
GeminiResolved(req, reply) ==
    IF reply < 0
    THEN Answer([req EXCEPT !.gemini_failed = TRUE], 500, "Gemini API error")
    ELSE IF reply = 0
         THEN Answer([req EXCEPT !.n = 0], 200, "")
         ELSE Await([req EXCEPT !.n = reply, !.i = 1], FirstStep(req.kind))

\* await model.generateContent(...) settles, in either endpoint
GeminiResolves(r, reply) ==
    /\ r \in DOMAIN node.reqs
    /\ node.reqs[r].pc = "gemini"
    /\ node' = [node EXCEPT !.reqs[r] = GeminiResolved(node.reqs[r], reply)]
    /\ UNCHANGED <<pipelineVars, llm, par, analyst, browser, flow, ui>>

\* the external call the loop body awaits after `step`; "end" after the
\* last. /chat: hume.tts.synthesizeJson, writeResultToFile,
\* hume.tts.voices.create, the two commands of lipSyncMessage,
\* audioFileToBase64, readJsonTranscript. /transcribe-and-chat:
\* voice.textToSpeech, then the same from lipSyncMessage on.
NextStep(kind, step) ==
    IF step = "tts" THEN (IF kind = "chat" THEN "write" ELSE "ffmpeg")
    ELSE IF step = "write" THEN "voice"
    ELSE IF step = "voice" THEN "ffmpeg"
    ELSE IF step = "ffmpeg" THEN "rhubarb"
    ELSE IF step = "rhubarb" THEN "audio"
    ELSE IF step = "audio" THEN "lipsync"
    ELSE "end"

\* the file audioFileToBase64(fileName) reads: `${pwd}/${file}final.wav`,
\* with fileName audios/message_i in /chat and audios/message_i.mp3 in
\* /transcribe-and-chat
AudioFileRead(kind) == IF kind = "chat" THEN "final.wav" ELSE "mp3final.wav"

\* the file a step reads, "" when it reads none
FileRead(kind, step) ==
    IF step = "ffmpeg" THEN "wav"
    ELSE IF step = "rhubarb" THEN "final.wav"
    ELSE IF step = "audio" THEN AudioFileRead(kind)
    ELSE IF step = "lipsync" THEN "json"
    ELSE ""

\* the file a step writes, "" when it writes none: writeResultToFile
\* writes `${filename}.wav`, voice.textToSpeech writes fileName
FileWritten(kind, step) ==
    IF step = "write" THEN "wav"
    ELSE IF step = "tts" /\ kind = "transcribe" THEN "mp3"
    ELSE IF step = "ffmpeg" THEN "final.wav"
    ELSE IF step = "rhubarb" THEN "json"
    ELSE ""

\* mutant of StepFailed: /transcribe-and-chat swallows the error as /chat
\* does
StepFailed_AlwaysSends(req) ==
    Answer([req EXCEPT !.failed_at = req.i], 200, "")

\* mutant of StepFailed: /chat answers the error as /transcribe-and-chat
\* does
StepFailed_AlwaysFails(req) ==
    Answer([req EXCEPT !.failed_at = req.i], 500, "err.message")

\* An await of the loop body rejects. /chat: the catch block around the
\* loop logs, and res.send({ messages }) follows; /transcribe-and-chat: the
\* outer catch answers status 500.
StepFailed(req) ==
    IF req.kind = "chat"
    THEN Answer([req EXCEPT !.failed_at = req.i], 200, "")
    ELSE Answer([req EXCEPT !.failed_at = req.i], 500, "err.message")

\* An await of the loop body resolves, content being what the step read:
\* messages[i].audio and messages[i].lipsync are assigned, and the handler
\* goes on to the next await, the next message or res.send({ messages }).
StepDone(req, step, content) ==
    LET filled == IF step = "audio" THEN [req EXCEPT !.audio[req.i] = content]
                  ELSE IF step = "lipsync"
                       THEN [req EXCEPT !.lipsync[req.i] = content]
                       ELSE req
    IN  IF NextStep(req.kind, step) # "end"
        THEN Await(filled, NextStep(req.kind, step))
        ELSE IF req.i < req.n
             THEN Await([filled EXCEPT !.i = @ + 1], FirstStep(req.kind))
             ELSE Answer(filled, 200, "")

\* the content a step writes: new speech is that of the writing request,
\* ffmpeg and rhubarb derive theirs from the file they read
ContentWritten(r, step, content) ==
    IF step \in {"write", "tts"} THEN r ELSE content

\* An await of the loop body of request r settles. step_ok = FALSE: it
\* rejects; a step whose input file does not exist rejects.
StepResolves(r, step_ok) ==
    LET req     == node.reqs[r]
        step    == req.pc
        read    == FileRead(req.kind, step)
        written == FileWritten(req.kind, step)
        content == IF read = "" THEN NoFile ELSE node.files[req.i][read]
    IN  /\ r \in DOMAIN node.reqs
        /\ step \in {"tts", "write", "voice", "ffmpeg", "rhubarb", "audio",
                     "lipsync"}
        /\ (read # "" /\ content = NoFile) => ~step_ok
        /\ node' =
               IF ~step_ok
               THEN [node EXCEPT !.reqs[r] = StepFailed(req)]
               ELSE [node EXCEPT
                        !.reqs[r] = StepDone(req, step, content),
                        !.files[req.i] =
                            IF written = "" THEN @
                            ELSE [@ EXCEPT ![written] =
                                     ContentWritten(r, step, content)]]
        /\ UNCHANGED <<pipelineVars, llm, par, analyst, browser, flow, ui>>

\* ------------------------------------------------------------------------
\* frontend/src/components/UI.jsx
\* ------------------------------------------------------------------------

\* the values the input field takes, character by character
InputTexts == {<<>>, <<" ">>, <<"h">>, <<" ", "h">>}

RECURSIVE TrimStart(_)
TrimStart(t) ==
    IF t # <<>> /\ Head(t) = " " THEN TrimStart(Tail(t)) ELSE t

RECURSIVE TrimEnd(_)
TrimEnd(t) ==
    IF t # <<>> /\ t[Len(t)] = " "
    THEN TrimEnd(SubSeq(t, 1, Len(t) - 1)) ELSE t

\* String.prototype.trim()
Trim(t) == TrimEnd(TrimStart(t))

\* useState(null) of mediaRecorder
NoRecorder == 0

\* The component's refs and state: input is input.current.value, sends
\* counts the runs of sendMessage; recording, mediaRecorder and audioChunks
\* are the three useState values; recorders are the startRecording calls
\* made, each with the audioChunks its closures hold, the chunks its
\* recorder has delivered and the blob its onstop handler has built.
UIIdle ==
    [input |-> <<>>, sends |-> 0, recording |-> FALSE,
     mediaRecorder |-> NoRecorder, audioChunks |-> <<>>, recorders |-> <<>>]

\* the user edits the input field
Type(text) ==
    /\ text # ui.input
    /\ ui' = [ui EXCEPT !.input = text]
    /\ UNCHANGED <<pipelineVars, llm, par, analyst, browser, flow, node>>

\* mutant of SendAllowed: the message being played is not looked at
SendAllowed_IgnoresMessage(text, loading, message) ==
    text # <<>> /\ ~loading

\* sendMessage: "if (!text) return; if (!loading && !message)"
SendAllowed(text, loading, message) ==
    text # <<>> /\ ~loading /\ message = NoMessage

\* sendMessage, from the Send button or the Enter key
SendMessage ==
    LET text == Trim(ui.input)
        send == SendAllowed(text, browser.loading, browser.message)
    IN  /\ ui.sends < MaxSends
        /\ send => Len(browser.calls) < MaxUICalls
        /\ browser' = IF send THEN CallStarted(browser, "chat") ELSE browser
        /\ ui' = [ui EXCEPT !.sends = @ + 1,
                            !.input = IF send THEN <<>> ELSE @]
        /\ UNCHANGED <<pipelineVars, llm, par, analyst, flow, node>>

\* startRecording up to "await navigator.mediaDevices.getUserMedia": the
\* handlers it will install close over the audioChunks of this render
StartRecording ==
    /\ Len(ui.recorders) < MaxRecordings
    /\ ui' = [ui EXCEPT
           !.recording = TRUE,
           !.recorders = Append(@, [state |-> "requested",
                                    closure |-> ui.audioChunks,
                                    delivered |-> <<>>, blob |-> <<>>,
                                    call |-> 0])]
    /\ UNCHANGED <<pipelineVars, llm, par, analyst, browser, flow, node>>

\* stopRecording: "if (mediaRecorder) { mediaRecorder.stop();
\* setMediaRecorder(null); }"
StopRecording ==
    /\ ui' = IF ui.mediaRecorder # NoRecorder
             THEN [ui EXCEPT !.recorders[ui.mediaRecorder].state = "stopping",
                             !.mediaRecorder = NoRecorder]
             ELSE ui
    /\ UNCHANGED <<pipelineVars, llm, par, analyst, browser, flow, node>>

\* handleVoiceToggle of the "Talk to Agent" buttons
HandleVoiceToggle ==
    IF ui.recording THEN StopRecording ELSE StartRecording

\* onMouseDown of the "Hold to Talk" button, disabled={loading}
HoldDown ==
    /\ ~browser.loading
    /\ StartRecording

\* onMouseUp of the "Hold to Talk" button, disabled={loading}
HoldUp ==
    /\ ~browser.loading
    /\ StopRecording

\* getUserMedia settles.  Granted: setMediaRecorder(recorder),
\* setAudioChunks([]), recorder.start().  Refused: startRecording rejects
\* where it stands, with nothing to catch it.
MicResolves(r, granted) ==
    /\ r \in DOMAIN ui.recorders
    /\ ui.recorders[r].state = "requested"
    /\ ui' = IF granted
             THEN [ui EXCEPT !.recorders[r].state = "recording",
                             !.mediaRecorder = r,
                             !.audioChunks = <<>>]
             ELSE [ui EXCEPT !.recorders[r].state = "refused"]
    /\ UNCHANGED <<pipelineVars, llm, par, analyst, browser, flow, node>>

\* recorder.ondataavailable: the stopped recorder delivers its data, the
\* chunk of recorder r standing as r
DataAvailable(r) ==
    /\ r \in DOMAIN ui.recorders
    /\ ui.recorders[r].state = "stopping"
    /\ ui' = [ui EXCEPT !.recorders[r].state = "flushed",
                        !.recorders[r].delivered = Append(@, r),
                        !.audioChunks = Append(@, r)]
    /\ UNCHANGED <<pipelineVars, llm, par, analyst, browser, flow, node>>

\* new Blob(audioChunks, ...) in onstop: audioChunks is the constant of
\* the render whose startRecording installed the handler
BlobOf(rec) == rec.closure

\* recorder.onstop up to its await: setRecording(false), the blob, and
\* chatWithAudio(audioBlob) run to its first await
OnStop(r) ==
    /\ r \in DOMAIN ui.recorders
    /\ ui.recorders[r].state = "flushed"
    /\ Len(browser.calls) < MaxUICalls
    /\ browser' = CallStarted(browser, "audio")
    /\ ui' = [ui EXCEPT !.recording = FALSE,
                        !.recorders[r].state = "awaiting",
                        !.recorders[r].blob = BlobOf(ui.recorders[r]),
                        !.recorders[r].call = Len(browser.calls) + 1]
    /\ UNCHANGED <<pipelineVars, llm, par, analyst, flow, node>>

\* recorder.onstop after "await chatWithAudio(audioBlob)":
\* setAudioChunks([])
OnStopResumes(r) ==
    /\ r \in DOMAIN ui.recorders
    /\ ui.recorders[r].state = "awaiting"
    /\ browser.calls[ui.recorders[r].call].pc = "done"
    /\ ui' = [ui EXCEPT !.recorders[r].state = "done",
                        !.audioChunks = <<>>]
    /\ UNCHANGED <<pipelineVars, llm, par, analyst, browser, flow, node>>

\* ------------------------------------------------------------------------
\* Specifications
\* ------------------------------------------------------------------------

Init ==
    /\ supabase_configured \in BOOLEAN
    /\ memory_system \in BOOLEAN
    /\ chat_messages \in {[i \in 1..n |-> NewMessage("s2")] :
                             n \in 0..MaxOtherMessages}
    /\ memories = {}
    /\ runs = <<>>
    /\ chatLog = NoTurn
    /\ llm = LLMIdle
    /\ par = ParIdle
    /\ analyst = AnalystIdle
    /\ browser = BrowserIdle
    /\ flow = FlowIdle
    /\ node = NodeOff
    /\ ui = UIIdle

Next ==
    \/ \E s \in Sessions \cup {NoSession}, has_result, query_ok, start_ok \in BOOLEAN :
           ChatTurn(s, has_result, query_ok, start_ok)
    \/ SaveMessage(ActiveSession)
    \/ \E r \in DOMAIN runs, fetch_ok \in BOOLEAN : RunFetch(r, fetch_ok)
    \/ \E r \in DOMAIN runs : RunExtractFails(r)
    \/ \E r \in DOMAIN runs, result \in ExtractionResults : RunExtract(r, result)
    \/ \E r \in DOMAIN runs, insert_ok \in BOOLEAN : RunInsert(r, insert_ok)
    \/ \E r \in DOMAIN runs, update_ok \in BOOLEAN : RunMark(r, update_ok)

Spec == Init /\ [][Next]_vars

\* One invocation of _get_llm_response, for every max_retries up to the
\* default and every sequence of responses.
NextLLM ==
    \/ \E max_retries \in 0..DEFAULT_MAX_RETRIES : LLMCall(max_retries)
    \/ \E resp \in LLMResponses : LLMAttempt(resp)
    \/ LLMExhausted

SpecLLM == Init /\ [][NextLLM]_vars

\* One invocation of extract_all_memories_parallel, for every result and
\* every completion order of its three tasks.
NextPar ==
    \/ ParSubmit
    \/ \E t \in MemoryTypeSet, n \in 0..MaxMem : ParTaskReturns(t, MemoryList(n))
    \/ \E t \in MemoryTypeSet : ParTaskRaises(t)
    \/ ParCollect
    \/ ParTimeout
    \/ ParUnwind
    \/ ParReturn

SpecPar == Init /\ [][NextPar]_vars

\* The analyst's memory fetch against a table that runs of both sessions
\* fill.
InitMem == Init /\ memory_system /\ chat_messages = <<>>

NextMem ==
    \/ \E s \in Sessions, t \in MemoryTypeSet, run \in 1..MaxRuns :
           StoreMemory(s, t, 1, run)
    \/ \E s \in Sessions \cup {NoSession}, query_ok \in BOOLEAN :
           psychological_analyst(s, query_ok)

SpecMem == InitMem /\ [][NextMem]_vars

\* One browser tab making chat and chatWithAudio calls, their awaits
\* resolving in any order.
InitBrowser ==
    Init /\ supabase_configured /\ memory_system /\ chat_messages = <<>>

NextBrowser ==
    \/ Tick
    \/ \E kind \in {"chat", "audio"} : StartCall(kind)
    \/ \E c \in 1..MaxCalls, has_session, storage_ok \in BOOLEAN :
           GetSessionResolves(c, has_session, storage_ok)
    \/ \E c \in 1..MaxCalls, signin_ok, storage_ok \in BOOLEAN :
           SignInResolves(c, signin_ok, storage_ok)
    \/ \E c \in 1..MaxCalls : AudioRead(c)
    \/ \E c \in 1..MaxCalls, invoke_ok \in BOOLEAN, resp \in -1..MaxResp :
           InvokeResolves(c, invoke_ok, resp)
    \/ OnMessagePlayed
    \/ MessagesEffect

SpecBrowser == InitBrowser /\ [][NextBrowser]_vars

\* One run, from the turn that starts it to its end, with the
\* extract_all_memories_parallel invocation its call of
\* process_data_to_memories makes.
\* process_data_to_memories returns what extract_all_memories_parallel
\* returned.
ProcessDataReturns(r) ==
    /\ par.pc = "returned"
    /\ RunExtract(r, par.output.memories)

\* process_data_to_memories raises what extract_all_memories_parallel
\* raised.
ProcessDataRaises(r) ==
    /\ par.pc = "raised"
    /\ RunExtractFails(r)

NextRunPar ==
    \/ /\ runs = <<>>
       /\ \E s \in Sessions \cup {NoSession},
             has_result, query_ok, start_ok \in BOOLEAN :
              ChatTurn(s, has_result, query_ok, start_ok)
    \/ SaveMessage(ActiveSession)
    \/ \E r \in DOMAIN runs, fetch_ok \in BOOLEAN : RunFetch(r, fetch_ok)
    \/ /\ \E r \in DOMAIN runs : runs[r].pc = "extract"
       /\ ParSubmit
    \/ \E t \in MemoryTypeSet, n \in 0..MaxMem : ParTaskReturns(t, MemoryList(n))
    \/ \E t \in MemoryTypeSet : ParTaskRaises(t)
    \/ ParCollect
    \/ ParTimeout
    \/ ParUnwind
    \/ ParReturn
    \/ \E r \in DOMAIN runs : ProcessDataReturns(r)
    \/ \E r \in DOMAIN runs : ProcessDataRaises(r)
    \/ \E r \in DOMAIN runs, insert_ok \in BOOLEAN : RunInsert(r, insert_ok)
    \/ \E r \in DOMAIN runs, update_ok \in BOOLEAN : RunMark(r, update_ok)

SpecRunPar == Init /\ [][NextRunPar]_vars

\* A session that keeps receiving rows and turns, every started run
\* running to its end.
NextFlow ==
    \/ \E is_tracked \in BOOLEAN : FlowSave(is_tracked)
    \/ \E query_ok \in BOOLEAN : FlowTurn(query_ok)
    \/ FlowRun

InitFlow ==
    Init /\ supabase_configured /\ memory_system /\ chat_messages = <<>>

SpecFlow ==
    /\ InitFlow
    /\ [][NextFlow]_vars
    /\ WF_vars(\E is_tracked \in BOOLEAN : FlowSave(is_tracked))
    /\ WF_vars(\E query_ok \in BOOLEAN : FlowTurn(query_ok))
    /\ WF_vars(FlowRun)

\* The Node backend from its start, serving /chat and
\* /transcribe-and-chat requests whose awaits settle in any order.
NextNode ==
    \/ \E eleven, gemini \in BOOLEAN : NodeBoot(eleven, gemini)
    \/ \E has_message \in BOOLEAN : PostChat(has_message)
    \/ \E has_file \in BOOLEAN : PostTranscribe(has_file)
    \/ \E r \in 1..MaxRequests, outcome \in {"ok", "not_ok", "throws"} :
           SttResolves(r, outcome)
    \/ \E r \in 1..MaxRequests, reply \in -1..MaxReply : GeminiResolves(r, reply)
    \/ \E r \in 1..MaxRequests, step_ok \in BOOLEAN : StepResolves(r, step_ok)

InitNode ==
    Init /\ supabase_configured /\ memory_system /\ chat_messages = <<>>

SpecNode == InitNode /\ [][NextNode]_vars

\* The UI component over the provider: the user types, sends, records
\* and stops, and the awaits of the calls so started settle in any order.
NextUI ==
    \/ \E text \in InputTexts : Type(text)
    \/ SendMessage
    \/ HandleVoiceToggle
    \/ HoldDown
    \/ HoldUp
    \/ \E r \in 1..MaxRecordings, granted \in BOOLEAN : MicResolves(r, granted)
    \/ \E r \in 1..MaxRecordings : DataAvailable(r)
    \/ \E r \in 1..MaxRecordings : OnStop(r)
    \/ \E r \in 1..MaxRecordings : OnStopResumes(r)
    \/ \E c \in 1..MaxUICalls, has_session \in BOOLEAN :
           GetSessionResolves(c, has_session, TRUE)
    \/ \E c \in 1..MaxUICalls, signin_ok \in BOOLEAN :
           SignInResolves(c, signin_ok, TRUE)
    \/ \E c \in 1..MaxUICalls : AudioRead(c)
    \/ \E c \in 1..MaxUICalls, invoke_ok \in BOOLEAN :
           InvokeResolves(c, invoke_ok, IF invoke_ok THEN 1 ELSE -1)
    \/ OnMessagePlayed
    \/ MessagesEffect

InitUI ==
    Init /\ supabase_configured /\ memory_system /\ chat_messages = <<>>

SpecUI == InitUI /\ [][NextUI]_vars

\* ------------------------------------------------------------------------
\* Properties of the memory pipeline (Spec)
\* ------------------------------------------------------------------------

\* the ids of the batch of run r
Batch(r) == Range(runs[r].messages)

\* the number of rows of the session in chat_messages
Count(session_id) ==
    Cardinality(SessionMessageIds(chat_messages, session_id))

\* C1: no chat message is in the input batch of more than one extraction
\* run that stores memories: the batches of any two runs that have saved a
\* memory are disjoint.
C1_AtMostOnce ==
    \A r1, r2 \in DOMAIN runs :
        (r1 # r2 /\ runs[r1].memories_saved > 0 /\ runs[r2].memories_saved > 0)
            => Batch(r1) \cap Batch(r2) = {}

\* the step is a /chat turn that is visible in the state
TurnStep == chatLog' # chatLog \/ Len(runs') # Len(runs)

\* the count the turn logged in chatLog' works with: the number of rows of
\* its session, 0 when it cannot be read
CountRead ==
    IF chatLog'.readable THEN Count(chatLog'.session_id) ELSE 0

\* the turn logged in chatLog' produced a result, has a session_id, and its
\* count is greater than 0 and divisible by 20
TurnConditions ==
    /\ chatLog'.has_result
    /\ chatLog'.session_id # NoSession
    /\ CountRead > 0
    /\ CountRead % 20 = 0

\* an unreadable count is taken as 0
UnreadableIsZero ==
    \A s \in Sessions \cup {NoSession} :
        /\ get_session_message_count(s, FALSE) = 0
        /\ ~supabase_configured => get_session_message_count(s, TRUE) = 0

\* C2 as claimed: at the end of a /chat turn a run is started if and only
\* if the turn produced a result, has a session_id and read a count greater
\* than 0 and divisible by 20; an unreadable count is taken as 0 and starts
\* no run.
C2_TriggerIff ==
    [][TurnStep =>
          /\ (Len(runs') = Len(runs) + 1) <=> TurnConditions
          /\ UnreadableIsZero
          /\ ~chatLog'.readable => Len(runs') = Len(runs)]_vars

\* C2 as amended: a run is started only if the turn produced a result, has
\* a session_id and read a count greater than 0 and divisible by 20, and
\* under these conditions it is started unless get_workflow_instance() or
\* Thread.start() raises; the run started is one of the turn's session, not
\* yet past its first step; an unreadable count is taken as 0 and starts no
\* run.
C2_TriggerUnlessStartFails ==
    [][TurnStep =>
          /\ (Len(runs') = Len(runs) + 1)
                 <=> (TurnConditions /\ ~chatLog'.start_failed)
          /\ Len(runs') \in {Len(runs), Len(runs) + 1}
          /\ Len(runs') = Len(runs) + 1 =>
                 /\ runs'[Len(runs')].session_id = chatLog'.session_id
                 /\ runs'[Len(runs')].pc = "fetch"
                 /\ \A r \in DOMAIN runs : runs'[r] = runs[r]
          /\ chatLog'.start_failed => TurnConditions
          /\ UnreadableIsZero
          /\ ~chatLog'.readable => Len(runs') = Len(runs)]_vars

\* C2 witness: a turn with a result and a session_id has read the count 20
\* and its run has been started.
C2_Witness ==
    /\ chatLog.has_result /\ chatLog.readable /\ ~chatLog.start_failed
    /\ chatLog.session_id = ActiveSession
    /\ Count(ActiveSession) = 20
    /\ runs # <<>>
    /\ runs[Len(runs)].pc = "fetch"

\* C3: every multiple of 20 that the message count of a session has reached
\* and left behind has had an extraction run started for it (no multiple of
\* 20 is skipped).
C3_NoMultipleSkipped ==
    \A s \in Sessions :
        \A m \in 1..Count(s) :
            (m % 20 = 0 /\ m < Count(s))
                => \E r \in DOMAIN runs :
                       runs[r].session_id = s /\ runs[r].trigger_count = m

\* the last n elements of sequence s
LastN(s, n) == SubSeq(s, IF Len(s) > n THEN Len(s) - n + 1 ELSE 1, Len(s))

\* C4: the batch a run works on is the last 15 unprocessed messages of its
\* session: only unprocessed rows of the session, at most 15, and the 15
\* most recently created ones when there are more.
C4_BatchIsLast15 ==
    [][\A r \in DOMAIN runs :
          (runs[r].pc = "fetch" /\ runs'[r].messages # <<>>)
              => runs'[r].messages =
                     LastN(Ascending(Unprocessed(chat_messages,
                                                 runs[r].session_id)), 15)]_vars

\* C5: when a run completes without error every message of its batch is
\* processed (and stays so); a step of a run changes no row outside the
\* batch of the run; no step removes a row of chat_messages or moves it to
\* another session.
C5_MarkedBatchOnly ==
    /\ [](\A r \in DOMAIN runs :
              (runs[r].pc = "done" /\ runs[r].errors = {})
                  => \A i \in Batch(r) : chat_messages[i].processed_into_memory)
    /\ [][/\ \A r \in DOMAIN runs :
                 runs'[r] # runs[r] =>
                     \A i \in DOMAIN chat_messages \ Range(runs'[r].messages) :
                         chat_messages'[i] = chat_messages[i]
          /\ Len(chat_messages') >= Len(chat_messages)
          /\ \A i \in DOMAIN chat_messages :
                 chat_messages'[i].session_id = chat_messages[i].session_id]_vars

\* C5 witness: a run has completed without error on a batch of 15 and there
\* are rows outside its batch, of its session and of the other one, still
\* unprocessed.
C5_Witness ==
    \E r \in DOMAIN runs :
        /\ runs[r].pc = "done" /\ runs[r].errors = {} /\ runs[r].marked
        /\ Cardinality(Batch(r)) = 15
        /\ \A i \in Batch(r) : chat_messages[i].processed_into_memory
        /\ \E i \in DOMAIN chat_messages \ Batch(r) :
               /\ chat_messages[i].session_id = runs[r].session_id
               /\ ~chat_messages[i].processed_into_memory
        /\ \E i \in DOMAIN chat_messages :
               /\ chat_messages[i].session_id # runs[r].session_id
               /\ ~chat_messages[i].processed_into_memory

\* C6: every error raised during a run (a failed extraction, a failed
\* insert into memories, a failed update of chat_messages) propagates out
\* of trigger_memory_extraction.
C6_ErrorsPropagate ==
    \A r \in DOMAIN runs :
        (runs[r].pc = "done"
         /\ runs[r].errors \cap {"extraction_failed", "insert_failed",
                                 "mark_failed"} # {})
            => runs[r].raised

\* ------------------------------------------------------------------------
\* Properties of _get_llm_response (SpecLLM)
\* ------------------------------------------------------------------------

\* the invocation has returned or raised
LLMEnded == llm.pc \in {"returned", "raised"}

\* attempt k (1-based) got a response that holds a JSON list
YieldsList(k) == Classify(llm.responses[k]).status = "list"

\* C7: one invocation calls the LLM at most max_retries times (at most 3 by
\* default), makes a further attempt only after a failed one, and returns
\* the parsed list of the first attempt that yields a JSON list, with no
\* attempt after it.
C7_RetryUntilList ==
    LET n == Len(llm.responses)
    IN  /\ n <= llm.max_retries
        /\ n <= 3
        /\ \A k \in 1..n :
               /\ k < n => ~YieldsList(k)
               /\ YieldsList(k) =>
                      /\ k = n
                      /\ llm.pc = "returned"
                      /\ llm.value = Classify(llm.responses[k]).value
                      /\ Len(llm.value) = llm.responses[k].items

\* C7 witness: the third attempt, after two failed ones, yields a non-empty
\* list and the invocation has returned it.
C7_Witness ==
    /\ llm.pc = "returned"
    /\ Len(llm.responses) = 3
    /\ YieldsList(3)
    /\ llm.value # <<>>

\* C8: when every one of the max_retries attempts has failed the invocation
\* raises; it never returns a value after exhausting its attempts.
C8_ExhaustedRaises ==
    (/\ LLMEnded
     /\ Len(llm.responses) = llm.max_retries
     /\ \A k \in 1..Len(llm.responses) : ~YieldsList(k))
        => llm.pc = "raised"

C10_OutputByType ==
    /\ par.pc # "idle" =>
           /\ DOMAIN par.task = {"procedural", "semantic", "episodic"}
           /\ \A t \in DOMAIN par.task : par.task[t] # "unsubmitted"
    /\ par.pc = "idle" => par.collected = 0 /\ par.completed = <<>>
    /\ par.pc = "returned" =>
           /\ Len(par.completed) = 3
           /\ Range(par.completed) = {"procedural", "semantic", "episodic"}
           /\ \A t \in {"procedural", "semantic", "episodic"} :
                  par.output.memories[t] = par.result[t]
           /\ par.output.memory_summary.total_procedural
                  = Len(par.result["procedural"])
           /\ par.output.memory_summary.total_semantic
                  = Len(par.result["semantic"])
           /\ par.output.memory_summary.total_episodic
                  = Len(par.result["episodic"])
           /\ par.output.memory_summary.total_memories
                  = Len(par.result["procedural"]) + Len(par.result["semantic"])
                        + Len(par.result["episodic"])

\* C10 witness: the tasks completed in the order episodic, semantic,
\* procedural, with results of different lengths, and the output has been
\* returned.
C10_Witness ==
    /\ par.pc = "returned"
    /\ par.completed = <<"episodic", "semantic", "procedural">>
    /\ Len(par.result["semantic"]) # Len(par.result["episodic"])
    /\ Len(par.result["procedural"]) # Len(par.result["semantic"])
    /\ par.output.memory_summary.total_memories > 0

\* C11: memory extraction is non-blocking.  The step of a /chat turn that
\* starts a run answers in that same step, with the run not yet past its
\* first step; the answer is the turn's result and is not a failure, also
\* when starting the run raised; and no step of a run changes the answer
\* of the turn, whether the run succeeds, fails or is still under way.
C11_NonBlocking ==
    [][/\ TurnStep =>
              /\ chatLog'.response = [failed |-> FALSE,
                                      result |-> chatLog'.has_result]
              /\ Len(runs') = Len(runs) + 1 =>
                     /\ runs'[Len(runs')].pc = "fetch"
                     /\ runs'[Len(runs')].memories_saved = 0
                     /\ ~runs'[Len(runs')].marked
       /\ (\E r \in DOMAIN runs : runs'[r] # runs[r]) =>
              chatLog' = chatLog]_vars

\* C11 witness: a turn whose run could not be started has answered with its
\* result, while an earlier run of the session has ended with an error
C11_Witness ==
    /\ chatLog.start_failed
    /\ chatLog.response = [failed |-> FALSE, result |-> TRUE]
    /\ \E r \in DOMAIN runs :
           /\ runs[r].session_id = chatLog.session_id
           /\ runs[r].pc = "done"
           /\ runs[r].errors # {}

\* ------------------------------------------------------------------------
\* Properties of the analyst's memory fetch (SpecMem)
\* ------------------------------------------------------------------------

\* the rows table memories holds for a session and a type
StoredFor(session_id, memory_type) ==
    {row \in memories : row.session_id = session_id
                          /\ row.memory_type = memory_type}

\* the step is a psychological_analyst call that is visible in the state
AnalystStep == analyst' # analyst

\* the memories and the memory context of the call logged in analyst' are
\* those of every row stored for its session, type by type, and of no
\* other row
CoversSession ==
    /\ \A t \in MemoryTypeSet :
           /\ analyst'.session_memories[t] = StoredFor(analyst'.session_id, t)
           /\ analyst'.memory_context.lines[t]
                  = Cardinality(StoredFor(analyst'.session_id, t))
    /\ analyst'.memory_context.total
           = Cardinality({row \in memories :
                             row.session_id = analyst'.session_id})
    /\ analyst'.memory_context.present
           <=> (\E row \in memories : row.session_id = analyst'.session_id)

C13_FetchDegradesToEmpty ==
    [][/\ \A s \in Sessions \cup {NoSession}, query_ok \in BOOLEAN :
              LET fetched == fetch_session_memories(s, query_ok)
              IN  /\ ~fetched.raised
                  /\ (~supabase_configured \/ s = NoSession \/ ~query_ok)
                         => fetched.memories = NoMemories
       /\ AnalystStep =>
              /\ analyst'.pc = "prompted"
              /\ (analyst'.session_id = NoSession \/ ~analyst'.readable) =>
                     /\ analyst'.session_memories = NoMemories
                     /\ ~analyst'.memory_context.present
                     /\ analyst'.memory_context.total = 0]_vars

\* C13 witness: a turn of s1 whose memories query raised went on to its
\* prompt with an empty memory context, although s1 has stored memories
C13_Witness ==
    /\ supabase_configured
    /\ analyst.pc = "prompted"
    /\ analyst.session_id = "s1"
    /\ ~analyst.readable
    /\ analyst.session_memories = NoMemories
    /\ ~analyst.memory_context.present
    /\ \E row \in memories : row.session_id = "s1"

\* ------------------------------------------------------------------------
\* Properties of the session id of useChat (SpecBrowser)
\* ------------------------------------------------------------------------

\* C14: all chat and chatWithAudio calls of one tab send the same
\* session_id: every body handed to functions.invoke carries the id held in
\* sessionStorage, and an id once stored is never replaced, however the
\* calls overlap.
C14_OneSessionId ==
    [][/\ \A i \in DOMAIN browser'.sent :
              /\ browser'.sent[i].session_id = browser'.storage
              /\ browser'.sent[i].session_id # NoId
       /\ browser.storage # NoId => browser'.storage = browser.storage]_vars

\* C14 witness: a chat call and a chatWithAudio call are both awaiting
\* functions.invoke, the later one having sent the id the earlier one
\* generated at an earlier time
C14_Witness ==
    /\ Len(browser.sent) = 2
    /\ browser.sent[1].session_id = browser.sent[2].session_id
    /\ browser.sent[1].session_id < browser.clock
    /\ \E c1, c2 \in DOMAIN browser.calls :
           /\ browser.calls[c1].kind = "chat"
           /\ browser.calls[c2].kind = "audio"
           /\ browser.calls[c1].pc = "invoke"
           /\ browser.calls[c2].pc = "invoke"

\* ------------------------------------------------------------------------
\* Properties of extraction runs (Spec, SpecRunPar)
\* ------------------------------------------------------------------------

\* run r holds a batch it has not yet tried to mark
HoldsBatch(r) == runs[r].pc \in {"extract", "save"}

\* C15: two runs of one session that overlap can both fetch the same
\* unprocessed message and both store memories derived from it: nothing
\* keeps a fetch away from the batch of a run under way.  A fetch that
\* returns rows while another run of the session holds its batch returns
\* every message of that batch that is still unprocessed.
C15_OverlapSharesBatch ==
    [][\A r, r2 \in DOMAIN runs :
          (/\ r # r2
           /\ runs[r].pc = "fetch"
           /\ runs'[r].messages # <<>>
           /\ runs[r2].session_id = runs[r].session_id
           /\ HoldsBatch(r2))
              => {m \in Batch(r2) : ~chat_messages[m].processed_into_memory}
                     \subseteq Range(runs'[r].messages)]_vars

\* C15 witness: two runs of one session, neither having marked its batch,
\* have both stored a memory, and a message still unprocessed is in both
\* batches
C15_Witness ==
    \E r1, r2 \in DOMAIN runs :
        /\ r1 # r2
        /\ runs[r1].session_id = runs[r2].session_id
        /\ runs[r1].pc = "save" /\ runs[r2].pc = "save"
        /\ \E row1, row2 \in memories : row1.run = r1 /\ row2.run = r2
        /\ \E m \in Batch(r1) \cap Batch(r2) :
               ~chat_messages[m].processed_into_memory

\* C16: if any of the three parallel tasks raises,
\* extract_all_memories_parallel raises and returns no output, and the run
\* that called it stores no memories row and marks no message processed.
C16_TaskErrorStoresNothing ==
    (\E t \in MemoryTypeSet : par.task[t] = "failed") =>
        /\ par.pc # "returned"
        /\ par.output = ParIdle.output
        /\ memories = {}
        /\ \A m \in DOMAIN chat_messages :
               ~chat_messages[m].processed_into_memory
        /\ \A r \in DOMAIN runs :
               /\ runs[r].pc \in {"extract", "done"}
               /\ runs[r].memories_saved = 0
               /\ ~runs[r].marked
               /\ runs[r].pc = "done" =>
                      /\ par.pc = "raised"
                      /\ "extraction_failed" \in runs[r].errors

\* C16 witness: one task raised after another had returned a memory; the
\* invocation raised and the run ended with nothing stored or marked
C16_Witness ==
    /\ par.pc = "raised"
    /\ \E t \in MemoryTypeSet : par.task[t] = "failed"
    /\ \E t \in MemoryTypeSet : par.task[t] = "done" /\ par.result[t] # <<>>
    /\ \E r \in DOMAIN runs :
           /\ runs[r].pc = "done"
           /\ runs[r].messages # <<>>
           /\ "extraction_failed" \in runs[r].errors

\* the steps of a run in their order
RunOrder ==
    {<<"fetch", "extract">>, <<"fetch", "done">>, <<"extract", "save">>,
     <<"extract", "done">>, <<"save", "save">>, <<"save", "done">>}

\* C17: within one run the steps happen in the order fetch batch, extract
\* memories, insert memories, mark messages processed: a run inserts only
\* after its extraction, and the step of a run that marks a message
\* processed is taken when every insert of that run has been attempted.
C17_InsertsBeforeMark ==
    [][/\ \A r \in DOMAIN runs :
              /\ runs'[r] # runs[r] =>
                     <<runs[r].pc, runs'[r].pc>> \in RunOrder
              /\ runs'[r].memories_saved # runs[r].memories_saved =>
                     runs[r].pc = "save" /\ ~runs[r].marked
       /\ memories' # memories =>
              \E r \in DOMAIN runs :
                  /\ runs[r].pc = "save" /\ runs[r].todo # <<>>
                  /\ runs'[r].todo = Tail(runs[r].todo)
       /\ chat_messages' # chat_messages /\ Len(chat_messages') = Len(chat_messages) =>
              \E r \in DOMAIN runs :
                  /\ runs[r].pc = "save"
                  /\ runs[r].todo = <<>>
                  /\ runs'[r].pc = "done"
                  /\ runs'[r].marked]_vars

\* C17 witness: a run has attempted three inserts, one of which failed, and
\* then marked its batch
C17_Witness ==
    \E r \in DOMAIN runs :
        /\ runs[r].pc = "done"
        /\ runs[r].marked
        /\ runs[r].memories_saved = 2
        /\ "insert_failed" \in runs[r].errors
        /\ \A m \in Batch(r) : chat_messages[m].processed_into_memory

\* run r found no message to process, or no memory system
EndsEarly(r) == runs[r].messages = <<>> \/ ~memory_system

\* C18: a run that finds no unprocessed message for the session, or that
\* finds the memory system uninitialized, ends in that step without
\* calling the LLM, without inserting into memories and without updating any
\* chat message, and does nothing afterwards.
C18_EarlyExitTouchesNothing ==
    [][\A r \in DOMAIN runs :
          /\ (runs[r].pc = "fetch" /\ runs'[r] # runs[r] /\ EndsEarly(r)')
                 => /\ runs'[r].pc = "done"
                    /\ memories' = memories
                    /\ chat_messages' = chat_messages
          /\ (runs[r].pc = "done" /\ EndsEarly(r))
                 => /\ runs'[r] = runs[r]
                    /\ runs[r].todo = <<>>
                    /\ runs[r].memories_saved = 0
                    /\ ~runs[r].marked
                    /\ \A row \in memories : row.run # r]_vars

\* C18 witness: without a memory system, one run ended at the test of the
\* memory system and another, whose fetch returned nothing, at the test of
\* the batch; no memory is stored and no message is marked
C18_Witness ==
    /\ ~memory_system
    /\ \E r1, r2 \in DOMAIN runs :
           /\ runs[r1].pc = "done" /\ runs[r1].messages # <<>>
           /\ "memory_system_not_initialized" \in runs[r1].errors
           /\ runs[r2].pc = "done" /\ runs[r2].messages = <<>>
    /\ memories = {}
    /\ \A m \in DOMAIN chat_messages : ~chat_messages[m].processed_into_memory

\* C19: if an insert into memories of a run raises, the messages of the
\* run's batch keep processed_into_memory = FALSE: no later step of that
\* run changes chat_messages.
C19_FailedSaveKeepsUnprocessed ==
    [][\A r \in DOMAIN runs :
          (runs'[r] # runs[r] /\ "insert_failed" \in runs[r].errors)
              => chat_messages' = chat_messages]_vars

\* ------------------------------------------------------------------------
\* Properties of the long session (SpecFlow)
\* ------------------------------------------------------------------------

RequestsOf(kind) == {r \in DOMAIN node.reqs : node.reqs[r].kind = kind}

\* message k of request r carries audio / lipsync
HasAudio(r, k) == node.reqs[r].audio[k] # NoFile
HasLipsync(r, k) == node.reqs[r].lipsync[k] # NoFile

\* C21: POST /chat checks its preconditions in order before any external
\* call: without a message the answer is 400 "No message provided", with a
\* message and a key missing it is 500 "API keys missing", and in both
\* cases no external call (Gemini, speech, lip sync) has been made.
C21_PreconditionsFirst ==
    \A r \in RequestsOf("chat") :
        LET req == node.reqs[r]
        IN  /\ ~req.has_input =>
                   /\ req.status = 400
                   /\ req.error = "No message provided"
                   /\ req.calls = {}
                   /\ req.answers = 1
            /\ (req.has_input
                    /\ (~node.elevenLabsApiKey \/ ~node.geminiApiKey)) =>
                   /\ req.status = 500
                   /\ req.error = "API keys missing"
                   /\ req.calls = {}
                   /\ req.answers = 1

\* C21 witness: with a key missing, a request without a message was
\* answered 400 and a request with a message 500
C21_Witness ==
    /\ ~node.geminiApiKey \/ ~node.elevenLabsApiKey
    /\ \E r1, r2 \in RequestsOf("chat") :
           /\ ~node.reqs[r1].has_input /\ node.reqs[r1].status = 400
           /\ node.reqs[r2].has_input /\ node.reqs[r2].status = 500

\* C22: in POST /chat, when the Gemini call or the parsing of its reply
\* fails, the request is answered 500 "Gemini API error" and no speech,
\* file write or lip-sync step is run for it.
C22_GeminiErrorStops ==
    \A r \in RequestsOf("chat") :
        node.reqs[r].gemini_failed =>
            /\ node.reqs[r].status = 500
            /\ node.reqs[r].error = "Gemini API error"
            /\ node.reqs[r].pc = "done"
            /\ node.reqs[r].calls = {"gemini"}
            /\ \A k \in 1..MaxReply : ~HasAudio(r, k) /\ ~HasLipsync(r, k)

\* C22 witness: a /chat request whose Gemini call failed has been answered
\* while another /chat request got audio for a message
C22_Witness ==
    \E r1, r2 \in RequestsOf("chat") :
        /\ node.reqs[r1].gemini_failed
        /\ node.reqs[r1].answers = 1
        /\ HasAudio(r2, 1)

\* C23: every POST /chat request is answered at most once, and exactly once
\* when its handler has ended; when the speech/lip-sync step fails for
\* message i the request is answered with the full message list, in which
\* only messages before i carry both audio and lipsync; a message carrying
\* lipsync also carries audio.
C23_ChatAnsweredOnce ==
    \A r \in RequestsOf("chat") :
        LET req == node.reqs[r]
        IN  /\ req.answers = (IF req.pc = "done" THEN 1 ELSE 0)
            /\ req.failed_at > 0 =>
                   /\ req.pc = "done"
                   /\ req.status = 200
                   /\ req.failed_at \in 1..req.n
                   /\ \A k \in 1..MaxReply :
                          (HasAudio(r, k) /\ HasLipsync(r, k))
                              => k < req.failed_at
            /\ \A k \in 1..MaxReply : HasLipsync(r, k) => HasAudio(r, k)

\* C23 witness: a /chat request of two messages, whose second message
\* failed at reading its lip-sync file, was answered with the list: the
\* first message carries audio and lipsync, the second audio only
C23_Witness ==
    \E r \in RequestsOf("chat") :
        /\ node.reqs[r].pc = "done"
        /\ node.reqs[r].status = 200
        /\ node.reqs[r].n = 2
        /\ node.reqs[r].failed_at = 2
        /\ HasAudio(r, 1) /\ HasLipsync(r, 1)
        /\ HasAudio(r, 2) /\ ~HasLipsync(r, 2)

\* C24: POST /transcribe-and-chat answers at most once, and exactly once
\* when its handler has ended: 400 without an audio file, 500 when
\* transcription, the Gemini call or a speech/lip-sync step of a message
\* fails, and the message list only when every message has audio and
\* lipsync.
C24_TranscribeAllOrNothing ==
    \A r \in RequestsOf("transcribe") :
        LET req == node.reqs[r]
        IN  /\ req.answers = (IF req.pc = "done" THEN 1 ELSE 0)
            /\ ~req.has_input => req.status = 400 /\ req.calls = {}
            /\ (req.has_input /\ req.pc = "done") => req.status \in {200, 500}
            /\ (req.failed_at > 0 \/ req.gemini_failed) => req.status = 500
            /\ (req.pc = "done" /\ req.calls = {"stt"}) => req.status = 500
            /\ req.status = 200 =>
                   /\ req.failed_at = 0
                   /\ \A k \in 1..req.n : HasAudio(r, k) /\ HasLipsync(r, k)

\* C24 witness: a /transcribe-and-chat request whose speech, ffmpeg and
\* rhubarb steps ran for its first message failed at reading the audio
\* file and was answered 500, no list being sent
C24_Witness ==
    \E r \in RequestsOf("transcribe") :
        /\ node.reqs[r].pc = "done"
        /\ node.reqs[r].status = 500
        /\ node.reqs[r].failed_at = 1
        /\ node.reqs[r].n = 2
        /\ "audio" \in node.reqs[r].calls

\* C25: for any two POST /chat requests handled concurrently, the audio
\* and lipsync returned with message i of a request are the ones
\* synthesized from that request's message i.
C25_OwnAudio ==
    \A r \in RequestsOf("chat") :
        \A k \in 1..MaxReply :
            /\ node.reqs[r].audio[k] \in {NoFile, r}
            /\ node.reqs[r].lipsync[k] \in {NoFile, r}

\* ------------------------------------------------------------------------
\* Properties of the chat provider (SpecBrowser)
\* ------------------------------------------------------------------------

\* messages[0], or null for an empty queue
HeadOrNull(m) == IF m = <<>> THEN NoMessage ELSE m[1]

\* the calls that end in this step
EndingCalls ==
    {c \in DOMAIN browser.calls :
        browser.calls[c].pc # "done" /\ browser'.calls[c].pc = "done"}

\* C26: the pending avatar messages form a FIFO queue.  A step either
\* leaves the queue alone, or removes exactly its head and keeps the rest
\* in order, or appends at its tail the messages of the one call that
\* ends in the step, in the order of the reply; and whenever the effect
\* has run, the exposed message is the head of the queue, null when the
\* queue is empty.
C26_FifoQueue ==
    [][LET old == browser.messages
           new == browser'.messages
       IN  /\ \/ new = old
              \/ old # <<>> /\ new = Tail(old)
              \/ /\ Len(new) > Len(old)
                 /\ SubSeq(new, 1, Len(old)) = old
                 /\ \E c \in EndingCalls :
                        \A i \in Len(old) + 1..Len(new) :
                            /\ new[i].call = c
                            /\ new[i].k = i - Len(old)
           /\ ~browser'.effect_due => browser'.message = HeadOrNull(new)]_vars

\* C26 happens: the first message of a two-message reply has been played,
\* the second is exposed and the reply of another call waits behind it
C26_Witness ==
    /\ Len(browser.messages) >= 2
    /\ browser.messages[1].k = 2
    /\ browser.messages[2].call # browser.messages[1].call
    /\ ~browser.effect_due
    /\ browser.message = browser.messages[1]

\* the texts that begin with "Sorry, I encountered an error"
SorryTexts ==
    {"Sorry, I encountered an error: ",
     "Sorry, I encountered an error processing your audio: "}

\* the bodies call c has handed to the Edge Function
SentBy(b, c) == {i \in DOMAIN b.sent : b.sent[i].call = c}

\* C27: a call that fails ends in its catch block and not in an
\* exception: the step in which it fails appends exactly one message to
\* the queue, whose text begins "Sorry, I encountered an error" and whose
\* audio is null; a call that fails while signing in hands nothing to the
\* Edge Function, then or later.
C27_ErrorsBecomeMessages ==
    [][\A c \in DOMAIN browser.calls :
          /\ (~browser.calls[c].failed /\ browser'.calls[c].failed) =>
                 /\ browser'.calls[c].pc = "done"
                 /\ Len(browser'.messages) = Len(browser.messages) + 1
                 /\ SubSeq(browser'.messages, 1, Len(browser.messages))
                        = browser.messages
                 /\ LET m == browser'.messages[Len(browser'.messages)]
                    IN  /\ m.call = c
                        /\ m.text \in SorryTexts
                        /\ m.audio = NoAudio
                 /\ browser.calls[c].pc = "signIn" => SentBy(browser', c) = {}
          /\ browser.calls[c].pc = "done" =>
                 /\ browser'.calls[c] = browser.calls[c]
                 /\ SentBy(browser', c) = SentBy(browser, c)]_vars

\* C27 happens: one call has failed before it made a session id and has
\* sent nothing, another has failed in the Edge Function call, and the
\* queue holds the error message of each
C27_Witness ==
    \E c1, c2 \in DOMAIN browser.calls :
        /\ browser.calls[c1].failed
        /\ browser.calls[c1].session_id = NoId
        /\ SentBy(browser, c1) = {}
        /\ browser.calls[c2].failed
        /\ SentBy(browser, c2) # {}
        /\ Len(browser.messages) = 2
        /\ \A i \in 1..2 : browser.messages[i].text \in SorryTexts

\* ------------------------------------------------------------------------
\* Properties of the UI component (SpecUI)
\* ------------------------------------------------------------------------

\* a chat or chatWithAudio call is in flight
InFlight == \E c \in DOMAIN browser.calls : browser.calls[c].pc # "done"

\* C28: loading is true exactly when a call is in flight
C28_LoadingIffInFlight == browser.loading <=> InFlight

\* a chat call starts in this step
ChatInvoked ==
    /\ Len(browser'.calls) = Len(browser.calls) + 1
    /\ browser'.calls[Len(browser'.calls)].kind = "chat"

\* C29: a run of sendMessage invokes chat only when the trimmed input is
\* not empty, loading is false and no message is exposed; it clears the
\* input field when it invokes chat and leaves the field as it was when
\* it does not; and chat is invoked by sendMessage alone.
C29_SendGuard ==
    [][/\ ui'.sends # ui.sends =>
              IF ChatInvoked
              THEN /\ Trim(ui.input) # <<>>
                   /\ ~browser.loading
                   /\ browser.message = NoMessage
                   /\ ui'.input = <<>>
              ELSE /\ browser'.calls = browser.calls
                   /\ ui'.input = ui.input
       /\ ChatInvoked => ui'.sends # ui.sends]_vars

\* C29 happens: sendMessage has run twice over a text with a leading
\* space; one run invoked chat and cleared the field, the other did not
\* and left the text typed after the first where it was
C29_Witness ==
    /\ ui.sends = 2
    /\ Len(browser.calls) = 1
    /\ browser.calls[1].kind = "chat"
    /\ ui.input = <<" ", "h">>

\* the recorders that have been started and whose stop has not been
\* handled yet
ActiveRecorders ==
    {r \in DOMAIN ui.recorders :
        ui.recorders[r].state \in {"requested", "recording", "stopping",
                                   "flushed"}}

\* C30: the blob handed to chatWithAudio holds every chunk its recorder
\* delivered, and the recording flag is true exactly while a recorder is
\* requested or active
C30_RecordingFaithful ==
    /\ \A r \in DOMAIN ui.recorders :
           ui.recorders[r].call # 0 =>
               Range(ui.recorders[r].delivered) \subseteq Range(ui.recorders[r].blob)
    /\ ui.recording <=> ActiveRecorders # {}

====
